---------------------------- MODULE Spec2Model ----------------------------
(***************************************************************************)
(* Byte-level tokenization utilities of cs336_basics:                      *)
(*   - find_chunk_boundaries  (pretokenization_example.py)                 *)
(*   - BytePairEncodingTokenizer.encode / decode and merge (tokenizer.py)  *)
(* Each function is modelled as a state machine whose steps are the        *)
(* statements of the Python source; Init draws the arguments of the call   *)
(* from bounded sets.                                                      *)
(***************************************************************************)
EXTENDS Integers, Sequences, FiniteSets

VARIABLES
    pc,                   \* position in the running function
    outcome,              \* "running", "returned", or the exception raised
    \* ---- find_chunk_boundaries ----
    file,                 \* content of the byte source
    file_pos,             \* current position of the file object
    desired_num_chunks,
    split_special_token,
    token_is_bytes,       \* isinstance(split_special_token, bytes)
    file_size,
    chunk_size,
    chunk_boundaries,     \* the list; Python index j is element j + 1
    bi,
    initial_position,
    result,               \* the returned list
    \* ---- BytePairEncodingTokenizer ----
    string,               \* argument of encode: a sequence of code points
    merges,               \* params.merges: sequence of <<pair, new_index>>
    vocab,                \* params.vocab: function id -> byte sequence
    indices,              \* working list of encode / argument of decode
    mi,                   \* number of merge rules already applied by encode
    i,                    \* loop index of merge
    new_indices,          \* list built by merge
    decoded,              \* the string returned by decode
    entry                 \* what the caller invoked: "encode" (followed by
                          \* decode of its result), "decode", or "merge"

chunkVars == <<file, file_pos, desired_num_chunks, split_special_token,
               token_is_bytes, file_size, chunk_size, chunk_boundaries, bi,
               initial_position, result>>

bpeVars == <<string, merges, vocab, indices, mi, i, new_indices, decoded,
             entry>>

vars == <<pc, outcome, chunkVars, bpeVars>>

---------------------------------------------------------------------------
(* Bounds of the model *)

MaxFileLen == 6

MaxChunks == 3

MaxTokenLen == 2

\* The window of the look-ahead loop is 4096 bytes in the source; the model
\* scales it so that the bounded sources span several windows.
MiniChunkBound == 3

Bytes == {97, 98}

MaxStringLen == 3

MaxMerges == 2

MaxIdsLen == 2

BoundedSeq(S, n) == UNION {[1..m -> S] : m \in 0..n}

Min(a, b) == IF a < b THEN a ELSE b

---------------------------------------------------------------------------
(* Python primitives used by find_chunk_boundaries *)

\* a // b on integers with a >= 0 and b # 0 (floor division)
PyFloorDiv(a, b) ==
    IF b > 0 THEN a \div b ELSE -((a + (-b) - 1) \div (-b))

\* file.read(n) at position pos: at most n bytes, empty at end of stream
Read(f, pos, n) == SubSeq(f, pos + 1, Min(pos + n, Len(f)))

\* bytes.find(sub): lowest 0-based index where sub occurs entirely inside
\* chunk, -1 when there is none (the empty sub is found at 0)
Find(chunk, sub) ==
    LET hits == {j \in 0..(Len(chunk) - Len(sub)) :
                    SubSeq(chunk, j + 1, j + Len(sub)) = sub}
    IN IF hits = {} THEN -1
       ELSE CHOOSE j \in hits : \A h \in hits : j <= h

\* sorted(set(xs))
RECURSIVE SortedSeq(_)
SortedSeq(S) ==
    IF S = {} THEN <<>>
    ELSE LET m == CHOOSE x \in S : \A y \in S : x <= y
         IN <<m>> \o SortedSeq(S \ {m})

Range(s) == {s[j] : j \in 1..Len(s)}

\* variant: the list is returned as built, duplicates included
ListAsBuilt(xs) == xs

SortedSet(xs) == SortedSeq(Range(xs))

mini_chunk_size == MiniChunkBound

\* variant: the offset inside the window is taken for a file offset
SnapToWindowOffset(position, found_at) == found_at

\* variant: the boundary is put one byte after the start of the token
SnapPastStart(position, found_at) == position + found_at + 1

\* the value assigned to chunk_boundaries[bi] when the token is found
SnapTo(position, found_at) == position + found_at

\* the position the next window is taken to start at
AdvanceBy(position) == position + mini_chunk_size

---------------------------------------------------------------------------
(* find_chunk_boundaries *)

InitChunk ==
    /\ pc = "start"
    /\ outcome = "running"
    /\ file \in BoundedSeq(Bytes, MaxFileLen)
    /\ desired_num_chunks \in -1..MaxChunks
    /\ split_special_token \in BoundedSeq(Bytes, MaxTokenLen)
    /\ token_is_bytes \in BOOLEAN
    /\ file_pos = 0
    /\ file_size = 0
    /\ chunk_size = 0
    /\ chunk_boundaries = <<>>
    /\ bi = 0
    /\ initial_position = 0
    /\ result = <<>>
    /\ string = <<>>
    /\ merges = <<>>
    /\ vocab = <<>>
    /\ indices = <<>>
    /\ mi = 0
    /\ i = 0
    /\ new_indices = <<>>
    /\ decoded = <<>>
    /\ entry = "find_chunk_boundaries"

\* line 15: the assertion on the type of the token fails
AssertFails ==
    /\ pc = "start"
    /\ ~token_is_bytes
    /\ pc' = "done"
    /\ outcome' = "AssertionError"
    /\ UNCHANGED <<chunkVars, bpeVars>>

\* lines 18-22: file_size // 0
ZeroDivision ==
    /\ pc = "start"
    /\ token_is_bytes
    /\ desired_num_chunks = 0
    /\ file_size' = Len(file)
    /\ file_pos' = 0
    /\ pc' = "done"
    /\ outcome' = "ZeroDivisionError"
    /\ UNCHANGED <<file, desired_num_chunks, split_special_token,
                   token_is_bytes, chunk_size, chunk_boundaries, bi,
                   initial_position, result, bpeVars>>

\* lines 18-27 with range(desired_num_chunks + 1) empty:
\* chunk_boundaries[-1] on the empty list
IndexErrorOnLast ==
    /\ pc = "start"
    /\ token_is_bytes
    /\ desired_num_chunks < 0
    /\ file_size' = Len(file)
    /\ file_pos' = 0
    /\ chunk_size' = PyFloorDiv(Len(file), desired_num_chunks)
    /\ chunk_boundaries' = <<>>
    /\ pc' = "done"
    /\ outcome' = "IndexError"
    /\ UNCHANGED <<file, desired_num_chunks, split_special_token,
                   token_is_bytes, bi, initial_position, result, bpeVars>>

\* lines 18-29: the uniformly spaced guesses, the last forced to file_size
InitialGuesses ==
    /\ pc = "start"
    /\ token_is_bytes
    /\ desired_num_chunks > 0
    /\ file_size' = Len(file)
    /\ file_pos' = 0
    /\ chunk_size' = PyFloorDiv(Len(file), desired_num_chunks)
    /\ chunk_boundaries' =
          [j \in 1..(desired_num_chunks + 1) |->
              IF j = desired_num_chunks + 1 THEN Len(file)
              ELSE (j - 1) * chunk_size']
    /\ bi' = 1
    /\ pc' = "for"
    /\ UNCHANGED <<file, desired_num_chunks, split_special_token,
                   token_is_bytes, initial_position, result, outcome, bpeVars>>

\* lines 31-33: next bi of range(1, len(chunk_boundaries) - 1)
ForNext ==
    /\ pc = "for"
    /\ bi < Len(chunk_boundaries) - 1
    /\ initial_position' = chunk_boundaries[bi + 1]
    /\ file_pos' = chunk_boundaries[bi + 1]
    /\ pc' = "while"
    /\ UNCHANGED <<file, desired_num_chunks, split_special_token,
                   token_is_bytes, file_size, chunk_size, chunk_boundaries,
                   bi, result, outcome, bpeVars>>

\* line 31: the range is exhausted
ForExit ==
    /\ pc = "for"
    /\ bi >= Len(chunk_boundaries) - 1
    /\ pc' = "return"
    /\ UNCHANGED <<outcome, chunkVars, bpeVars>>

mini_chunk == Read(file, file_pos, mini_chunk_size)

found_at == Find(mini_chunk, split_special_token)

\* variant: at end of stream the loop seeks back to the guess and reads
\* again instead of leaving the loop
ReadEOFRetries ==
    /\ pc = "while"
    /\ mini_chunk = <<>>
    /\ file_pos' = chunk_boundaries[bi + 1]
    /\ initial_position' = chunk_boundaries[bi + 1]
    /\ UNCHANGED <<pc, outcome, file, desired_num_chunks, split_special_token,
                   token_is_bytes, file_size, chunk_size, chunk_boundaries,
                   bi, result, bpeVars>>

\* lines 35-40: the read returned b""
ReadEOF ==
    /\ pc = "while"
    /\ mini_chunk = <<>>
    /\ chunk_boundaries' = [chunk_boundaries EXCEPT ![bi + 1] = file_size]
    /\ bi' = bi + 1
    /\ pc' = "for"
    /\ UNCHANGED <<file, file_pos, desired_num_chunks, split_special_token,
                   token_is_bytes, file_size, chunk_size, initial_position,
                   result, outcome, bpeVars>>

\* lines 35, 43-46: the token is found in the window
ReadFound ==
    /\ pc = "while"
    /\ mini_chunk # <<>>
    /\ found_at # -1
    /\ chunk_boundaries' =
          [chunk_boundaries EXCEPT ![bi + 1] = SnapTo(initial_position, found_at)]
    /\ file_pos' = file_pos + Len(mini_chunk)
    /\ bi' = bi + 1
    /\ pc' = "for"
    /\ UNCHANGED <<file, desired_num_chunks, split_special_token,
                   token_is_bytes, file_size, chunk_size, initial_position,
                   result, outcome, bpeVars>>

\* lines 35, 43-47: the token is not in the window
ReadAdvance ==
    /\ pc = "while"
    /\ mini_chunk # <<>>
    /\ found_at = -1
    /\ initial_position' = AdvanceBy(initial_position)
    /\ file_pos' = file_pos + Len(mini_chunk)
    /\ UNCHANGED <<pc, file, desired_num_chunks, split_special_token,
                   token_is_bytes, file_size, chunk_size, chunk_boundaries,
                   bi, result, outcome, bpeVars>>

\* line 50
ReturnBoundaries ==
    /\ pc = "return"
    /\ result' = SortedSet(chunk_boundaries)
    /\ pc' = "done"
    /\ outcome' = "returned"
    /\ UNCHANGED <<file, file_pos, desired_num_chunks, split_special_token,
                   token_is_bytes, file_size, chunk_size, chunk_boundaries,
                   bi, initial_position, bpeVars>>

Next ==
    \/ AssertFails
    \/ ZeroDivision
    \/ IndexErrorOnLast
    \/ InitialGuesses
    \/ ForNext
    \/ ForExit
    \/ ReadEOF
    \/ ReadFound
    \/ ReadAdvance
    \/ ReturnBoundaries

Spec == InitChunk /\ [][Next]_vars

\* the call runs to completion: no step is delayed forever
FairSpec == Spec /\ WF_vars(Next)

---------------------------------------------------------------------------
(* Python primitives used by the tokenizers *)

\* UTF-8 encoding of one code point (str.encode("utf-8"))
Utf8EncodeChar(cp) ==
    IF cp < 128 THEN <<cp>>
    ELSE IF cp < 2048 THEN <<192 + (cp \div 64), 128 + (cp % 64)>>
    ELSE IF cp < 65536
         THEN <<224 + (cp \div 4096), 128 + ((cp \div 64) % 64),
                128 + (cp % 64)>>
         ELSE <<240 + (cp \div 262144), 128 + ((cp \div 4096) % 64),
                128 + ((cp \div 64) % 64), 128 + (cp % 64)>>

RECURSIVE Utf8Encode(_)
Utf8Encode(str) ==
    IF str = <<>> THEN <<>>
    ELSE Utf8EncodeChar(Head(str)) \o Utf8Encode(Tail(str))

IsContinuation(bs, n) == n <= Len(bs) /\ bs[n] >= 128 /\ bs[n] <= 191

\* the code point at the head of bs and the number of bytes it takes;
\* len = 0 when bs does not start with a well-formed UTF-8 sequence
Utf8Head(bs) ==
    LET b == bs[1]
        c2 == (b - 192) * 64 + (bs[2] - 128)
        c3 == (b - 224) * 4096 + (bs[2] - 128) * 64 + (bs[3] - 128)
        c4 == (b - 240) * 262144 + (bs[2] - 128) * 4096
                 + (bs[3] - 128) * 64 + (bs[4] - 128)
    IN IF b < 128 THEN [len |-> 1, cp |-> b]
       ELSE IF b >= 194 /\ b <= 223 /\ IsContinuation(bs, 2)
            THEN [len |-> 2, cp |-> c2]
       ELSE IF b >= 224 /\ b <= 239 /\ IsContinuation(bs, 2)
               /\ IsContinuation(bs, 3)
            THEN IF c3 >= 2048 /\ ~(c3 >= 55296 /\ c3 <= 57343)
                 THEN [len |-> 3, cp |-> c3] ELSE [len |-> 0, cp |-> 0]
       ELSE IF b >= 240 /\ b <= 244 /\ IsContinuation(bs, 2)
               /\ IsContinuation(bs, 3) /\ IsContinuation(bs, 4)
            THEN IF c4 >= 65536 /\ c4 <= 1114111
                 THEN [len |-> 4, cp |-> c4] ELSE [len |-> 0, cp |-> 0]
       ELSE [len |-> 0, cp |-> 0]

\* bytes.decode("utf-8"): [ok |-> TRUE, text |-> code points], or
\* ok = FALSE for UnicodeDecodeError
RECURSIVE Utf8Decode(_)
Utf8Decode(bs) ==
    IF bs = <<>> THEN [ok |-> TRUE, text |-> <<>>]
    ELSE LET h == Utf8Head(bs)
         IN IF h.len = 0 THEN [ok |-> FALSE, text |-> <<>>]
            ELSE LET rest == Utf8Decode(SubSeq(bs, h.len + 1, Len(bs)))
                 IN IF rest.ok
                    THEN [ok |-> TRUE, text |-> <<h.cp>> \o rest.text]
                    ELSE rest

\* variant: dict.get with the default b"" instead of None
VocabGetDefault(v, id) ==
    IF id \in DOMAIN v THEN [known |-> TRUE, bytes |-> v[id]]
    ELSE [known |-> TRUE, bytes |-> <<>>]

\* vocab.get(id): the entry, or None (known = FALSE)
VocabGet(v, id) ==
    IF id \in DOMAIN v THEN [known |-> TRUE, bytes |-> v[id]]
    ELSE [known |-> FALSE, bytes |-> <<>>]

\* b"".join(list of bytes)
RECURSIVE Join(_)
Join(bl) ==
    IF bl = <<>> THEN <<>> ELSE Head(bl).bytes \o Join(Tail(bl))

---------------------------------------------------------------------------
(* BPETokenizerParams the tokenizer is constructed with *)

CodePoints == {97, 233}

ByteIds == 0..255

\* the byte ids the strings of the model are made of
UsedBytes == UNION {{Utf8EncodeChar(cp)[n] : n \in 1..Len(Utf8EncodeChar(cp))}
                    : cp \in CodePoints}

\* (index1, index2) -> new_index
MergeRules ==
    { <<<<97, 97>>, 256>>,
      <<<<195, 169>>, 256>>,
      <<<<169, 97>>, 256>>,
      <<<<256, 97>>, 257>>,
      <<<<256, 256>>, 257>>,
      <<<<97, 97>>, 97>> }

ByteVocab == [b \in ByteIds |-> <<b>>]

\* v with id mapped to bs
VocabWith(v, id, bs) ==
    [x \in DOMAIN v \cup {id} |-> IF x = id THEN bs ELSE v[x]]

\* the vocabulary training builds next to the first n merges: the bytes,
\* and each new_index mapped to the bytes of its pair
RECURSIVE TrainedVocab(_, _)
TrainedVocab(ms, n) ==
    IF n = 0 THEN ByteVocab
    ELSE LET v == TrainedVocab(ms, n - 1)
             p == ms[n][1]
         IN IF p[1] \in DOMAIN v /\ p[2] \in DOMAIN v
            THEN VocabWith(v, ms[n][2], v[p[1]] \o v[p[2]])
            ELSE v

\* the vocabularies a tokenizer with merges ms is constructed with: the
\* trained one (the bytes alone when ms is empty) and the empty dict
Vocabularies(ms) == {TrainedVocab(ms, Len(ms)), <<>>}

---------------------------------------------------------------------------
(* BytePairEncodingTokenizer.encode, merge, BytePairEncodingTokenizer.decode *)

\* arguments of a direct call merge(indices, pair, new_index): ids 5 and 9
MergeArgs == { <<<<5, 5>>, 9>>, <<<<5, 9>>, 9>> }

InitBPE ==
    /\ outcome = "running"
    /\ \/ /\ entry = "encode"
          /\ pc = "encode"
          /\ merges \in BoundedSeq(MergeRules, MaxMerges)
          /\ vocab \in Vocabularies(merges)
          /\ string \in BoundedSeq(CodePoints, MaxStringLen)
          /\ indices = <<>>
       \/ /\ entry = "decode"
          /\ pc = "decode"
          /\ merges \in BoundedSeq(MergeRules, MaxMerges)
          /\ vocab \in Vocabularies(merges)
          /\ string = <<>>
          /\ indices \in BoundedSeq(UsedBytes \cup {256, 257}, MaxIdsLen)
       \/ /\ entry = "merge"
          /\ pc = "merge"
          /\ \E args \in MergeArgs : merges = <<args>>
          /\ vocab = <<>>
          /\ string = <<>>
          /\ indices \in BoundedSeq({5, 9}, MaxStringLen)
    /\ mi = 0
    /\ i = 0
    /\ new_indices = <<>>
    /\ decoded = <<>>
    /\ file = <<>>
    /\ desired_num_chunks = 0
    /\ split_special_token = <<>>
    /\ token_is_bytes = TRUE
    /\ file_pos = 0
    /\ file_size = 0
    /\ chunk_size = 0
    /\ chunk_boundaries = <<>>
    /\ bi = 0
    /\ initial_position = 0
    /\ result = <<>>

\* line 47
EncodeSeed ==
    /\ pc = "encode"
    /\ indices' = Utf8Encode(string)
    /\ mi' = 0
    /\ pc' = "merges"
    /\ UNCHANGED <<outcome, chunkVars, string, merges, vocab, i, new_indices,
                   decoded, entry>>

\* variant: the merges are taken last first
NextMergeReversed(ms, n) == ms[Len(ms) - n]

\* line 49: the item of params.merges the loop takes after n iterations
NextMerge(ms, n) == ms[n + 1]

pair == NextMerge(merges, mi)[1]

new_index == NextMerge(merges, mi)[2]

\* lines 49-50, 60-61: merge is called with the next rule
MergeCall ==
    /\ pc = "merges"
    /\ mi < Len(merges)
    /\ new_indices' = <<>>
    /\ i' = 0
    /\ pc' = "merge"
    /\ UNCHANGED <<outcome, chunkVars, string, merges, vocab, indices, mi,
                   decoded, entry>>

\* variant: only the first element of the pair is compared
MatchesFirst(xs, k, pr) == k + 1 < Len(xs) /\ xs[k + 1] = pr[1]

\* line 63: the condition of the if, k the 0-based index
Matches(xs, k, pr) ==
    k + 1 < Len(xs) /\ xs[k + 1] = pr[1] /\ xs[k + 2] = pr[2]

\* variant: the index advances by one past a replaced pair
MergeReplaceAdvancesOne ==
    /\ pc = "merge"
    /\ i < Len(indices)
    /\ Matches(indices, i, pair)
    /\ new_indices' = Append(new_indices, new_index)
    /\ i' = i + 1
    /\ UNCHANGED <<pc, outcome, chunkVars, string, merges, vocab, indices, mi,
                   decoded, entry>>

\* lines 62-65
MergeReplace ==
    /\ pc = "merge"
    /\ i < Len(indices)
    /\ Matches(indices, i, pair)
    /\ new_indices' = Append(new_indices, new_index)
    /\ i' = i + 2
    /\ UNCHANGED <<pc, outcome, chunkVars, string, merges, vocab, indices, mi,
                   decoded, entry>>

\* lines 62-63, 66-68
MergeCopy ==
    /\ pc = "merge"
    /\ i < Len(indices)
    /\ ~Matches(indices, i, pair)
    /\ new_indices' = Append(new_indices, indices[i + 1])
    /\ i' = i + 1
    /\ UNCHANGED <<pc, outcome, chunkVars, string, merges, vocab, indices, mi,
                   decoded, entry>>

\* lines 62, 69: the loop ends in a direct call, new_indices is returned
MergeReturnToCaller ==
    /\ pc = "merge"
    /\ entry = "merge"
    /\ i >= Len(indices)
    /\ pc' = "done"
    /\ outcome' = "returned"
    /\ UNCHANGED <<chunkVars, bpeVars>>

\* lines 62, 69, 50: the loop ends, indices = merge(...)
MergeReturn ==
    /\ pc = "merge"
    /\ entry = "encode"
    /\ i >= Len(indices)
    /\ indices' = new_indices
    /\ mi' = mi + 1
    /\ pc' = "merges"
    /\ UNCHANGED <<outcome, chunkVars, string, merges, vocab, i, new_indices,
                   decoded, entry>>

\* line 51; the caller passes the list to decode
EncodeReturn ==
    /\ pc = "merges"
    /\ mi >= Len(merges)
    /\ pc' = "decode"
    /\ UNCHANGED <<outcome, chunkVars, bpeVars>>

\* line 54
bytes_list == [n \in 1..Len(indices) |-> VocabGet(vocab, indices[n])]

\* lines 54-55: b"".join meets None
DecodeTypeError ==
    /\ pc = "decode"
    /\ \E n \in 1..Len(indices) : ~bytes_list[n].known
    /\ pc' = "done"
    /\ outcome' = "TypeError"
    /\ UNCHANGED <<chunkVars, bpeVars>>

\* lines 54-55: the joined bytes are not UTF-8
DecodeUnicodeError ==
    /\ pc = "decode"
    /\ \A n \in 1..Len(indices) : bytes_list[n].known
    /\ ~Utf8Decode(Join(bytes_list)).ok
    /\ pc' = "done"
    /\ outcome' = "UnicodeDecodeError"
    /\ UNCHANGED <<chunkVars, bpeVars>>

\* lines 54-56
DecodeReturn ==
    /\ pc = "decode"
    /\ \A n \in 1..Len(indices) : bytes_list[n].known
    /\ Utf8Decode(Join(bytes_list)).ok
    /\ decoded' = Utf8Decode(Join(bytes_list)).text
    /\ pc' = "done"
    /\ outcome' = "returned"
    /\ UNCHANGED <<chunkVars, string, merges, vocab, indices, mi, i,
                   new_indices, entry>>

NextBPE ==
    \/ EncodeSeed
    \/ MergeCall
    \/ MergeReplace
    \/ MergeCopy
    \/ MergeReturn
    \/ MergeReturnToCaller
    \/ EncodeReturn
    \/ DecodeTypeError
    \/ DecodeUnicodeError
    \/ DecodeReturn

SpecBPE == InitBPE /\ [][NextBPE]_vars

---------------------------------------------------------------------------
(* Properties of merge, encode and decode *)

\* position p (1-based) of xs starts a replaced pair of the left-to-right
\* non-overlapping pass: the pair is there and p - 1 does not start one
RECURSIVE Replaced(_, _, _)
Replaced(xs, pr, p) ==
    /\ p >= 1
    /\ p + 1 <= Len(xs)
    /\ xs[p] = pr[1]
    /\ xs[p + 1] = pr[2]
    /\ ~Replaced(xs, pr, p - 1)

\* what the pass emits for the positions p..Len(xs)
RECURSIVE PassFrom(_, _, _, _)
PassFrom(xs, pr, new, p) ==
    IF p > Len(xs) THEN <<>>
    ELSE (IF Replaced(xs, pr, p) THEN <<new>>
          ELSE IF Replaced(xs, pr, p - 1) THEN <<>>
          ELSE <<xs[p]>>) \o PassFrom(xs, pr, new, p + 1)

OnePass(xs, pr, new) == PassFrom(xs, pr, new, 1)

NumReplaced(xs, pr) == Cardinality({p \in 1..Len(xs) : Replaced(xs, pr, p)})

\* the first n rules of ms applied once each, in list order
RECURSIVE OncePerRule(_, _, _)
OncePerRule(xs, ms, n) ==
    IF n = 0 THEN xs
    ELSE OnePass(OncePerRule(xs, ms, n - 1), ms[n][1], ms[n][2])

Reverse(sq) == [n \in 1..Len(sq) |-> sq[Len(sq) + 1 - n]]

\* the bytes the ids stand for in vocabulary v
RECURSIVE BytesOf(_, _)
BytesOf(v, ids) ==
    IF ids = <<>> THEN <<>> ELSE v[Head(ids)] \o BytesOf(v, Tail(ids))

\* v maps every byte id to that byte and every rule's new_index to the
\* bytes of its left id followed by the bytes of its right id
VocabCovers(v, ms) ==
    /\ \A b \in ByteIds : b \in DOMAIN v /\ v[b] = <<b>>
    /\ \A n \in 1..Len(ms) :
          LET pr == ms[n][1]
          IN /\ {pr[1], pr[2], ms[n][2]} \subseteq DOMAIN v
             /\ v[ms[n][2]] = v[pr[1]] \o v[pr[2]]

\* C6: merge is one left-to-right non-overlapping pass: a match at i emits
\* new_index and resumes at i + 2, anything else is copied; the pair (a, a)
\* on [a, a, a] gives [new, a]; the output is shorter than the input by the
\* number of replacements.
C6_MergeIsOnePass ==
    /\ pc = "merge" =>
          LET seen == SubSeq(indices, 1, i)
          IN /\ i <= Len(indices)
             /\ new_indices = OnePass(seen, pair, new_index)
             /\ Len(new_indices) = i - NumReplaced(seen, pair)
    /\ (entry = "merge" /\ pc = "done") =>
          /\ new_indices = OnePass(indices, pair, new_index)
          /\ Len(new_indices) = Len(indices) - NumReplaced(indices, pair)
          /\ (indices = <<5, 5, 5>> /\ pair = <<5, 5>> /\ new_index = 9)
                => new_indices = <<9, 5>>

\* merge([5, 5, 5], (5, 5), 9) has returned
C6_Witness ==
    /\ entry = "merge" /\ pc = "done" /\ outcome = "returned"
    /\ indices = <<5, 5, 5>>
    /\ pair = <<5, 5>>
    /\ new_index = 9

\* C7: with a vocabulary that covers the bytes and the merges, the entries
\* of encode(s) concatenate to the bytes of s, and decode(encode(s)) = s.
C7_RoundTrip ==
    (entry = "encode" /\ VocabCovers(vocab, merges)) =>
        /\ pc \in {"merges", "decode", "done"} =>
              /\ \A n \in 1..Len(indices) : indices[n] \in DOMAIN vocab
              /\ BytesOf(vocab, indices) = Utf8Encode(string)
        /\ pc = "done" => outcome = "returned" /\ decoded = string

\* a round trip through an id made by a rule whose pair holds the new_index
\* of an earlier rule, on a string with a two-byte character
C7_Witness ==
    /\ entry = "encode" /\ VocabCovers(vocab, merges)
    /\ pc = "done" /\ outcome = "returned"
    /\ \E n \in 1..Len(indices) : indices[n] = 257
    /\ \E n \in 1..Len(string) : string[n] = 233

\* C8: decode of a list holding an id that is not in the vocabulary ends
\* in an error, wherever the id is; no string is returned.
C8_UnknownIdFails ==
    (/\ pc = "done"
     /\ entry \in {"encode", "decode"}
     /\ \E n \in 1..Len(indices) : indices[n] \notin DOMAIN vocab) =>
        /\ outcome = "TypeError"
        /\ decoded = <<>>

\* decode ended on a list whose only unknown id is the last one
C8_Witness ==
    /\ pc = "done"
    /\ entry = "decode"
    /\ Len(indices) >= 2
    /\ indices[Len(indices)] \notin DOMAIN vocab
    /\ \A n \in 1..(Len(indices) - 1) : indices[n] \in DOMAIN vocab

\* C9: encode starts from one id per UTF-8 byte and applies each rule once,
\* in list order, each to the output of the rule before it; no rule is
\* applied again.
C9_EachRuleOnceInOrder ==
    entry = "encode" =>
        /\ pc = "merges" =>
              /\ mi <= Len(merges)
              /\ indices = OncePerRule(Utf8Encode(string), merges, mi)
        /\ pc = "merge" =>
              /\ mi < Len(merges)
              /\ indices = OncePerRule(Utf8Encode(string), merges, mi)
        /\ pc \in {"decode", "done"} =>
              /\ mi = Len(merges)
              /\ indices = OncePerRule(Utf8Encode(string), merges, Len(merges))

\* encode returned a list that still holds the pair of its first rule, made
\* by the second rule, and the same rules in the other order give another
\* list
C9_Witness ==
    /\ entry = "encode" /\ pc = "done"
    /\ Len(merges) = 2
    /\ \E n \in 1..(Len(indices) - 1) :
          <<indices[n], indices[n + 1]>> = merges[1][1]
    /\ OncePerRule(Utf8Encode(string), Reverse(merges), 2) # indices

---------------------------------------------------------------------------
(* Properties of find_chunk_boundaries *)

Returned == pc = "done" /\ outcome = "returned"

\* a call the function documents: k > 0 and a non-empty bytes token
ValidCall ==
    /\ token_is_bytes
    /\ desired_num_chunks > 0
    /\ split_special_token # <<>>

\* the token begins at 0-based offset p of the source
OccursAt(p) ==
    /\ p >= 0
    /\ p + Len(split_special_token) <= Len(file)
    /\ SubSeq(file, p + 1, p + Len(split_special_token)) = split_special_token

\* the naive guess of interior boundary j
Guess(j) == j * (Len(file) \div desired_num_chunks)

\* the smallest offset >= g where the token begins, Len(file) if none
NextOccurrence(g) ==
    LET later == {p \in g..Len(file) : OccursAt(p)}
    IN IF later = {} THEN Len(file)
       ELSE CHOOSE p \in later : \A q \in later : p <= q

Interior == 1..(desired_num_chunks - 1)

\* no proper prefix of the token is also a suffix of it: two occurrences
\* of the token cannot overlap
SelfOverlapFree(tok) ==
    \A m \in 1..(Len(tok) - 1) :
        SubSeq(tok, 1, m) # SubSeq(tok, Len(tok) - m + 1, Len(tok))

\* C1: for k > 0 and a non-empty token the returned list is strictly
\* increasing, starts at 0, ends at L, lies in [0, L] and has at most k + 1
\* elements.
C1_BoundariesOrdered ==
    (Returned /\ ValidCall) =>
        /\ Len(result) >= 1
        /\ result[1] = 0
        /\ result[Len(result)] = Len(file)
        /\ \A n \in 1..Len(result) : result[n] \in 0..Len(file)
        /\ \A n \in 1..(Len(result) - 1) : result[n] < result[n + 1]
        /\ Len(result) <= desired_num_chunks + 1

\* a call where two guesses were snapped to the same place and removed, and
\* an interior point remains
C1_Witness ==
    /\ Returned /\ ValidCall
    /\ Len(result) >= 3
    /\ Len(result) < Len(chunk_boundaries)

\* C2: every interior guess g is snapped to the smallest offset >= g where
\* the token begins, and to L only when no occurrence begins at or after g,
\* wherever the occurrence lies relative to the look-ahead windows.
C2_SnapsToNextOccurrence ==
    (Returned /\ ValidCall) =>
        \A j \in Interior : chunk_boundaries[j + 1] = NextOccurrence(Guess(j))

\* C3: every interior point of the result is L or the start of an occurrence
\* of the token at or after the guess it was snapped from.
C3_InteriorOnToken ==
    (Returned /\ ValidCall) =>
        /\ \A j \in Interior :
              \/ chunk_boundaries[j + 1] = Len(file)
              \/ /\ OccursAt(chunk_boundaries[j + 1])
                 /\ chunk_boundaries[j + 1] >= Guess(j)
        /\ \A n \in 2..(Len(result) - 1) :
              \/ result[n] = Len(file)
              \/ /\ OccursAt(result[n])
                 /\ \E j \in Interior : /\ chunk_boundaries[j + 1] = result[n]
                                        /\ result[n] >= Guess(j)

\* an interior point found in a later window than the one starting at its
\* guess
C3_Witness ==
    /\ Returned /\ ValidCall
    /\ \E j \in Interior :
          /\ chunk_boundaries[j + 1] >= Guess(j) + mini_chunk_size
          /\ chunk_boundaries[j + 1] < Len(file)
          /\ \E n \in 2..(Len(result) - 1) : result[n] = chunk_boundaries[j + 1]

\* C4 as stated: no returned boundary lies strictly inside an occurrence of
\* the token, for every non-empty token, self-overlapping ones included.
C4_NoBoundarySeversToken ==
    (Returned /\ ValidCall) =>
        \A n \in 1..Len(result) : \A p \in 0..Len(file) :
            OccursAt(p) =>
                ~(p < result[n] /\ result[n] < p + Len(split_special_token))

\* C4 amended: for a non-empty token whose occurrences cannot overlap, no
\* returned boundary lies strictly inside an occurrence of the token.
C4_NoBoundarySeversSeparateToken ==
    (Returned /\ ValidCall /\ SelfOverlapFree(split_special_token)) =>
        \A n \in 1..Len(result) : \A p \in 0..Len(file) :
            OccursAt(p) =>
                ~(p < result[n] /\ result[n] < p + Len(split_special_token))

\* a token of two bytes or more that cannot overlap itself, and an interior
\* point of the result on one of its occurrences
C4_Witness ==
    /\ Returned /\ ValidCall
    /\ Len(split_special_token) >= 2
    /\ SelfOverlapFree(split_special_token)
    /\ \E n \in 2..(Len(result) - 1) :
          result[n] < Len(file) /\ OccursAt(result[n])

\* C5: a call with desired_num_chunks <= 0 or with the empty token b"" ends
\* in an error: it never returns a list.
C5_DegenerateInputsFail ==
    (pc = "done" /\ (desired_num_chunks <= 0 \/ split_special_token = <<>>)) =>
        outcome # "returned"

\* C10: for k > 0 and a non-empty token the call returns, and the look-ahead
\* loop of a boundary is left only with the token found in the window read
\* or with the empty window read at end of stream, the boundary then being L.
C10_Terminates ==
    /\ ValidCall => <>Returned
    /\ [][(pc = "while" /\ pc' = "for") =>
             \/ mini_chunk # <<>> /\ found_at # -1
             \/ /\ mini_chunk = <<>>
                /\ file_pos = file_size
                /\ chunk_boundaries'[bi + 1] = file_size]_vars

\* a call that read several windows without finding the token and returned
C10_Witness ==
    /\ Returned /\ ValidCall
    /\ desired_num_chunks >= 2
    /\ Len(file) \div desired_num_chunks + mini_chunk_size < Len(file)
    /\ \A p \in 0..Len(file) : ~OccursAt(p)

===========================================================================
